---- MODULE Spec2Model ----
(***************************************************************************)
(* A model of the regular-expression engine of src/src/re.rs: the          *)
(* recursive-descent Compiler (with its linker) that turns a pattern into  *)
(* a bytecode program, and the Vm that runs the program over a string.     *)
(*                                                                         *)
(* A pattern and a string are sequences of characters, each character a    *)
(* string that names it.  Program addresses are zero-based as in the       *)
(* source, so the instruction at address a of program p is p[a + 1].       *)
(***************************************************************************)
EXTENDS Naturals, Sequences, FiniteSets

\* ------------------------------------------------------------------ bounds

\* Longest pattern handed to compile when only compilation is studied.
MaxPatLen == 5
\* Longest pattern handed to compile when the program is then run.
MaxRunPatLen == 4
\* Longest string handed to matches.
MaxStrLen == 3

\* ---------------------------------------------------------------- alphabet

\* Two literal characters: "a" is one byte of UTF-8 and U+00E9 (e acute),
\* written "U+E9", is two, so that a byte offset and a character index differ
\* after it.
Literals == {"a", "U+E9"}
Operators == {"?", "*", "+", ")", "|"}
PatternChars == Literals \cup Operators \cup {"("}

\* The width in bytes of a character's UTF-8 encoding, which is what the
\* char-offset iterator advances its offset by.
Utf8Len(c) == IF c = "U+E9" THEN 2 ELSE 1

RECURSIVE SeqsUpTo(_, _)
SeqsUpTo(S, n) ==
    IF n = 0 THEN {<<>>}
    ELSE LET shorter == SeqsUpTo(S, n - 1)
         IN  shorter \cup {Append(s, c) : s \in {t \in shorter : Len(t) = n - 1}, c \in S}

\* ------------------------------------------------------------ instructions

Char(c) == [op |-> "Char", c |-> c]
Jmp(a) == [op |-> "Jmp", a |-> a]
Split(a, b) == [op |-> "Split", a |-> a, b |-> b]
Match == [op |-> "Match"]

UNEXPECTED_EOS == [kind |-> "UnexpectedEos"]
\* fmt!("Unexpected char '%c' at %u.", c, i)
UnexpectedChar(c, i) == [kind |-> "UnexpectedChar", c |-> c, at |-> i]
NoError == [kind |-> "None"]

\* ------------------------------------------------------------------ cursor

\* As char_offset_iter, but counting characters instead of bytes.
char_index_iter(s) == [i \in 1..Len(s) |-> <<i - 1, s[i]>>]

\* pattern.char_offset_iter(): the (byte offset, character) pairs of s.
RECURSIVE char_offset_iter(_)
char_offset_iter(s) ==
    IF s = <<>> THEN <<>>
    ELSE LET front == char_offset_iter(SubSeq(s, 1, Len(s) - 1))
             off == IF front = <<>> THEN 0
                    ELSE front[Len(front)][1] + Utf8Len(front[Len(front)][2])
         IN  Append(front, <<off, s[Len(s)]>>)

\* ------------------------------------------------------------------ linker

relocate(ins, len) ==
    CASE ins.op = "Split" -> Split(len + ins.a, len + ins.b)
      [] ins.op = "Jmp" -> Jmp(len + ins.a)
      [] OTHER -> ins

\* As link, but p2 keeps its own addresses.
link_unrelocated(p1, p2) == p1 \o p2

link(p1, p2) ==
    LET len == Len(p1)
        pm == [i \in 1..Len(p2) |-> relocate(p2[i], len)]
    IN  p1 \o pm

\* As link_or, but the jump over p2 lands one address too far.
link_or_far(p1, p2) ==
    LET len1 == Len(p1)
        len2 == Len(p2)
        pm == Append(link(<<Split(1, len1 + 2)>>, p1), Jmp(len1 + len2 + 3))
    IN  link(pm, p2)

link_or(p1, p2) ==
    LET len1 == Len(p1)
        len2 == Len(p2)
        pm == Append(link(<<Split(1, len1 + 2)>>, p1), Jmp(len1 + len2 + 2))
    IN  link(pm, p2)

\* ---------------------------------------------------------------- compiler

\* A compiler routine returns Ok with the program and the cursor's new
\* position (an index into the char-offset pairs), or Err with the message.
Ok(p, pos) == [ok |-> TRUE, p |-> p, pos |-> pos, found |-> FALSE, e |-> NoError]
OkFound(p, pos, found) == [ok |-> TRUE, p |-> p, pos |-> pos, found |-> found, e |-> NoError]
Err(e) == [ok |-> FALSE, p |-> <<>>, pos |-> 0, found |-> FALSE, e |-> e]

\* Option<char>
None == <<>>
Some(c) == <<c>>

\* As compile_one_quantifier, but the Split of "*" leaves the loop at its Jmp.
compile_one_quantifier_star_short(it, pos, program) ==
    LET len == Len(program)
    IN  IF pos > Len(it) THEN Ok(program, pos)
        ELSE LET ch == it[pos][2]
             IN  CASE ch = "?" -> Ok(link(<<Split(1, len + 1)>>, program), pos + 1)
                   [] ch = "*" -> Ok(Append(link(<<Split(1, len + 1)>>, program), Jmp(0)), pos + 1)
                   [] ch = "+" -> Ok(Append(program, Split(0, len + 1)), pos + 1)
                   [] OTHER -> Ok(program, pos)

\* As compile_one_quantifier, but the Split of "+" leaves the loop at itself.
compile_one_quantifier_plus_self(it, pos, program) ==
    LET len == Len(program)
    IN  IF pos > Len(it) THEN Ok(program, pos)
        ELSE LET ch == it[pos][2]
             IN  CASE ch = "?" -> Ok(link(<<Split(1, len + 1)>>, program), pos + 1)
                   [] ch = "*" -> Ok(Append(link(<<Split(1, len + 2)>>, program), Jmp(0)), pos + 1)
                   [] ch = "+" -> Ok(Append(program, Split(0, len)), pos + 1)
                   [] OTHER -> Ok(program, pos)

\* The second half of compile_one: the quantifier that may follow a primitive.
compile_one_quantifier(it, pos, program) ==
    LET len == Len(program)
    IN  IF pos > Len(it) THEN Ok(program, pos)
        ELSE LET ch == it[pos][2]
             IN  CASE ch = "?" -> Ok(link(<<Split(1, len + 1)>>, program), pos + 1)
                   [] ch = "*" -> Ok(Append(link(<<Split(1, len + 2)>>, program), Jmp(0)), pos + 1)
                   [] ch = "+" -> Ok(Append(program, Split(0, len + 1)), pos + 1)
                   [] OTHER -> Ok(program, pos)

\* The tail of compile_fragment, after its loop.
compile_fragment_end(program, fragment, found_delimiter, pos) ==
    IF fragment = <<>> THEN OkFound(program, pos, found_delimiter)
    ELSE OkFound(link_or(fragment, program), pos, found_delimiter)

\* Whether c closes the fragment: delimiter.map_default(false, |&dc| dc == c).
is_delimiter(delimiter, c) == delimiter # None /\ delimiter[1] = c

RECURSIVE compile_one(_, _)
RECURSIVE compile_group(_, _)
RECURSIVE compile_fragment_loop(_, _, _, _, _)

compile_one(it, pos) ==
    IF pos > Len(it) THEN Ok(<<>>, pos)
    ELSE LET i == it[pos][1]
             c == it[pos][2]
         IN  IF c \in {"?", "*", "+", ")", "|"} THEN Err(UnexpectedChar(c, i))
             ELSE IF c = "("
                  THEN LET r == compile_group(it, pos + 1)
                       IN  IF r.ok THEN compile_one_quantifier(it, r.pos, r.p) ELSE r
                  ELSE compile_one_quantifier(it, pos + 1, <<Char(c)>>)

\* One turn of the loop of compile_fragment, and the turns after it.
compile_fragment_loop(it, pos, delimiter, program, fragment) ==
    LET r == compile_one(it, pos)
    IN  IF ~r.ok THEN r
        ELSE LET linked == link(program, r.p)
             IN  IF r.pos > Len(it)
                 THEN compile_fragment_end(linked, fragment, FALSE, r.pos)
                 ELSE LET c == it[r.pos][2]
                      IN  IF c = "|" /\ fragment = <<>>
                          THEN compile_fragment_loop(it, r.pos + 1, delimiter, <<>>, linked)
                          ELSE IF c = "|"
                          THEN compile_fragment_loop(it, r.pos + 1, delimiter, <<>>,
                                                     link_or(fragment, linked))
                          ELSE IF is_delimiter(delimiter, c)
                          THEN compile_fragment_end(linked, fragment, TRUE, r.pos + 1)
                          ELSE compile_fragment_loop(it, r.pos, delimiter, linked, fragment)

compile_fragment(it, pos, delimiter) ==
    compile_fragment_loop(it, pos, delimiter, <<>>, <<>>)

\* As compile_group, but without the check that ")" was found.
compile_group_unchecked(it, pos) ==
    LET r == compile_fragment(it, pos, Some(")"))
    IN  IF r.ok THEN Ok(r.p, r.pos) ELSE r

compile_group(it, pos) ==
    LET r == compile_fragment(it, pos, Some(")"))
    IN  IF r.ok
        THEN IF r.found THEN Ok(r.p, r.pos) ELSE Err(UNEXPECTED_EOS)
        ELSE r

\* Compiler::new(pattern).compile()
compile(pattern) ==
    LET r == compile_fragment(char_offset_iter(pattern), 1, None)
    IN  IF r.ok THEN Ok(Append(r.p, Match), r.pos) ELSE r

\* ---------------------------------------------------------- virtual machine

\* What a routine of the Vm comes to: it returns ("ok"), it never returns
\* ("hang"), or the task fails ("fail": fail!(), or an index out of bounds).
Closure(st, addrs) == [st |-> st, addrs |-> addrs]

\* As follow_jump_next, but a Jmp is not followed.
follow_jump_next_split_only(program, address) ==
    LET ins == program[address + 1]
    IN  CASE ins.op = "Split" -> <<ins.a, ins.b>>
          [] OTHER -> <<>>

\* The addresses one address of the working set contributes to the next one.
follow_jump_next(program, address) ==
    LET ins == program[address + 1]
    IN  CASE ins.op = "Split" -> <<ins.a, ins.b>>
          [] ins.op = "Jmp" -> <<ins.a>>
          [] OTHER -> <<>>

\* The for loop of follow_jump over one working set, from its k-th address:
\* <<new_working_set, addresses>>.
RECURSIVE follow_jump_for(_, _, _, _, _)
follow_jump_for(program, working_set, k, new_working_set, addresses) ==
    IF k > Len(working_set) THEN <<new_working_set, addresses>>
    ELSE LET address == working_set[k]
             next == follow_jump_next(program, address)
         IN  IF next = <<>>
             THEN follow_jump_for(program, working_set, k + 1, new_working_set,
                                  Append(addresses, address))
             ELSE follow_jump_for(program, working_set, k + 1, new_working_set \o next,
                                  addresses)

\* The while loop of follow_jump.  The working set of round r holds the ends of
\* the paths of r jumps that start at i: when it is not empty in round
\* Len(program) such a path visits some Split or Jmp twice, so the paths never
\* end, no working set is empty and the loop never exits.
RECURSIVE follow_jump_while(_, _, _, _)
follow_jump_while(program, working_set, addresses, round) ==
    IF working_set = <<>> THEN Closure("ok", addresses)
    ELSE IF \E k \in 1..Len(working_set) : working_set[k] >= Len(program)
    THEN Closure("fail", <<>>)
    ELSE IF round >= Len(program) THEN Closure("hang", <<>>)
    ELSE LET r == follow_jump_for(program, working_set, 1, <<>>, addresses)
         IN  follow_jump_while(program, r[1], r[2], round + 1)

follow_jump(program, i) == follow_jump_while(program, <<i>>, <<>>, 0)

\* init(): the new ips, and whether the closure was empty and 0 was pushed.
init(program) ==
    LET f == follow_jump(program, 0)
    IN  IF f.st # "ok" THEN [st |-> f.st, ips |-> <<>>, pushed |-> FALSE]
        ELSE IF f.addrs = <<>> THEN [st |-> "ok", ips |-> <<0>>, pushed |-> TRUE]
        ELSE [st |-> "ok", ips |-> f.addrs, pushed |-> FALSE]

\* The for loop of iterate over self.ips, from its k-th address.
RECURSIVE iterate_for(_, _, _, _, _, _, _)
iterate_for(program, ips, k, c, new_ips, result, pushed) ==
    IF k > Len(ips)
    THEN [st |-> "ok", ips |-> new_ips, result |-> result, pushed |-> pushed]
    ELSE LET addr == ips[k]
             stop(st) == [st |-> st, ips |-> ips, result |-> result, pushed |-> pushed]
         IN  IF addr >= Len(program) THEN stop("fail")
             ELSE LET ins == program[addr + 1]
                  IN  CASE ins.op = "Char" ->
                             IF ins.c # c
                             THEN iterate_for(program, ips, k + 1, c, new_ips, result, pushed)
                             ELSE IF addr + 1 >= Len(program) THEN stop("fail")
                             ELSE LET f == follow_jump(program, addr + 1)
                                  IN  IF f.st # "ok" THEN stop(f.st)
                                      ELSE IF f.addrs = <<>>
                                      THEN iterate_for(program, ips, k + 1, c,
                                                       Append(new_ips, addr + 1), result, TRUE)
                                      ELSE iterate_for(program, ips, k + 1, c,
                                                       new_ips \o f.addrs, result, pushed)
                        [] ins.op = "Match" ->
                             iterate_for(program, ips, k + 1, c, new_ips, "Matched", pushed)
                        [] OTHER -> stop("fail")

\* iterate(c): the IterResult, the new ips, and whether an empty closure made
\* it push addr+1 itself.
iterate(program, ips, c) ==
    IF ips = <<>>
    THEN [st |-> "ok", ips |-> ips, result |-> "Halt", pushed |-> FALSE]
    ELSE iterate_for(program, ips, 1, c, <<>>, "Continue", FALSE)

\* The loop over ips after the scan finds Match at some address.
ips_has_match(program, ips) ==
    \E k \in 1..Len(ips) : ips[k] < Len(program) /\ program[ips[k] + 1].op = "Match"

\* The loop over ips after the scan indexes the program out of its bounds
\* before it finds Match.
ips_out_of_bounds(program, ips) ==
    \E k \in 1..Len(ips) :
        /\ ips[k] >= Len(program)
        /\ \A j \in 1..(k - 1) : ips[j] < Len(program) /\ program[ips[j] + 1].op # "Match"

\* As has_start, but the last start offset is not tried.
has_start_but_last(start, string) == start + 1 < Len(string)

\* As has_start, but the offset past the last character is tried too.
has_start_past_end(start, string) == start <= Len(string)

\* for _ in range(0, string.char_len()): whether another start offset is tried.
has_start(start, string) == start < Len(string)

\* -------------------------------------------------------------------- state

VARIABLES
    pattern,    \* the pattern handed to compile
    pc,         \* where the program is
    error,      \* the Err compile returned
    program,    \* Vm.program
    ips,        \* Vm.ips
    string,     \* the string handed to matches
    start,      \* matches: the characters `iter` has passed (the start offset)
    cur,        \* matches: the characters the clone of `iter` has passed
    result,     \* the boolean matches returned
    pushed,     \* whether init or iterate ever found an empty closure
    from,       \* the address follow_jump was last called with on its own
    closure     \* what that call came to

vars == <<pattern, pc, error, program, ips, string, start, cur, result, pushed,
          from, closure>>

Strings == SeqsUpTo(Literals, MaxStrLen)

InitWith(patterns) ==
    /\ pattern \in patterns
    /\ pc = "new"
    /\ error = NoError
    /\ program = <<>>
    /\ ips = <<>>
    /\ string = <<>>
    /\ start = 0
    /\ cur = 0
    /\ result = FALSE
    /\ pushed = FALSE
    /\ from = 0
    /\ closure = Closure("none", <<>>)

\* pub fn compile(pattern): the Vm of the compiled program, or the error.
Compile ==
    /\ pc = "new"
    /\ LET r == compile(pattern)
       IN  IF r.ok
           THEN /\ program' = r.p
                /\ ips' = <<>>
                /\ pc' = "ready"
                /\ error' = error
           ELSE /\ error' = r.e
                /\ pc' = "error"
                /\ UNCHANGED <<program, ips>>
    /\ UNCHANGED <<pattern, string, start, cur, result, pushed, from, closure>>

\* matches(string) is called.
Matches ==
    /\ pc = "ready"
    /\ \E s \in Strings : string' = s
    /\ start' = 0
    /\ pc' = "outer"
    /\ UNCHANGED <<pattern, error, program, ips, cur, result, pushed, from, closure>>

\* The head of the outer loop and init(), or the return of false after it.
OuterLoop ==
    /\ pc = "outer"
    /\ IF has_start(start, string)
       THEN LET r == init(program)
            IN  /\ pc' = IF r.st = "ok" THEN "scan" ELSE r.st
                /\ ips' = IF r.st = "ok" THEN r.ips ELSE ips
                /\ pushed' = (pushed \/ r.pushed)
                /\ cur' = start
                /\ result' = result
       ELSE /\ pc' = "returned"
            /\ result' = FALSE
            /\ UNCHANGED <<ips, pushed, cur>>
    /\ UNCHANGED <<pattern, error, program, string, start, from, closure>>

\* One turn of the inner loop: the next character of the clone and iterate(c).
Scan ==
    /\ pc = "scan"
    /\ IF cur < Len(string)
       THEN LET r == iterate(program, ips, string[cur + 1])
            IN  /\ cur' = cur + 1
                /\ ips' = IF r.st = "ok" /\ r.result # "Halt" THEN r.ips ELSE ips
                /\ pushed' = (pushed \/ r.pushed)
                /\ pc' = CASE r.st # "ok" -> r.st
                           [] r.result = "Matched" -> "returned"
                           [] r.result = "Halt" -> "check"
                           [] OTHER -> "scan"
                /\ result' = IF r.st = "ok" /\ r.result = "Matched" THEN TRUE ELSE result
       ELSE /\ pc' = "check"
            /\ UNCHANGED <<cur, ips, pushed, result>>
    /\ UNCHANGED <<pattern, error, program, string, start, from, closure>>

\* The loop over ips after the scan, and iter.next().
Check ==
    /\ pc = "check"
    /\ IF ips_out_of_bounds(program, ips)
       THEN /\ pc' = "fail"
            /\ UNCHANGED <<result, start>>
       ELSE IF ips_has_match(program, ips)
       THEN /\ pc' = "returned"
            /\ result' = TRUE
            /\ start' = start
       ELSE /\ pc' = "outer"
            /\ start' = start + 1
            /\ result' = result
    /\ UNCHANGED <<pattern, error, program, ips, string, cur, pushed, from, closure>>

\* follow_jump(i) on its own, from any address of the compiled program.
FollowJump ==
    /\ pc = "ready"
    /\ \E i \in 0..(Len(program) - 1) :
           /\ from' = i
           /\ closure' = follow_jump(program, i)
    /\ pc' = "closed"
    /\ UNCHANGED <<pattern, error, program, ips, string, start, cur, result, pushed>>

\* Compilation and one call of matches.
Next == Compile \/ Matches \/ OuterLoop \/ Scan \/ Check

Spec == InitWith(SeqsUpTo(PatternChars, MaxRunPatLen)) /\ [][Next]_vars

\* The same over the longer patterns.
SpecLong == InitWith(SeqsUpTo(PatternChars, MaxPatLen)) /\ [][Next]_vars

\* Compilation, and the closure of one address of the compiled program.
NextCompile == Compile \/ FollowJump

SpecCompile == InitWith(SeqsUpTo(PatternChars, MaxPatLen)) /\ [][NextCompile]_vars

\* ------------------------------------------------- the meaning of a pattern

\* What the properties below compare the program with is read off the pattern's
\* text, without the compiler: parentheses are counted, and a pattern is cut at
\* its first top-level bar and then atom by atom.

Quantifiers == {"?", "*", "+"}

\* The number of characters of s before its i-th that are c.
Count(s, i, c) == Cardinality({j \in 1..(i - 1) : s[j] = c})

\* The i-th character of s stands at nesting depth zero.
AtTopLevel(s, i) == Count(s, i, "(") = Count(s, i, ")")

\* The i-th character of s is an operator where a primitive is expected.
Misplaced(s, i) ==
    CASE s[i] \in Quantifiers -> i = 1 \/ s[i - 1] \in {"(", "|"} \cup Quantifiers
      [] s[i] = "|" -> i = 1 \/ s[i - 1] \in {"(", "|"}
      [] s[i] = ")" -> i = 1 \/ s[i - 1] \in {"(", "|"} \/ AtTopLevel(s, i)
      [] OTHER -> FALSE

HasMisplaced(s) == \E i \in 1..Len(s) : Misplaced(s, i)

FirstMisplaced(s) ==
    CHOOSE i \in 1..Len(s) : Misplaced(s, i) /\ \A j \in 1..(i - 1) : ~Misplaced(s, j)

\* Some "(" of s is not closed by the end of s.
HasOpenGroup(s) == Count(s, Len(s) + 1, "(") > Count(s, Len(s) + 1, ")")

WellFormed(s) == ~HasMisplaced(s) /\ ~HasOpenGroup(s)

\* The number of bytes of UTF-8 before the i-th character of s.
RECURSIVE ByteOffset(_, _)
ByteOffset(s, i) == IF i <= 1 THEN 0 ELSE ByteOffset(s, i - 1) + Utf8Len(s[i - 1])

\* The first bar of s at depth zero, or 0.
TopBar(s) ==
    LET bars == {i \in 1..Len(s) : s[i] = "|" /\ AtTopLevel(s, i)}
    IN  IF bars = {} THEN 0 ELSE CHOOSE i \in bars : \A j \in bars : i <= j

\* Where the primitive that s starts with ends.
PrimitiveEnd(s) ==
    IF s[1] # "(" THEN 1
    ELSE CHOOSE i \in 2..Len(s) :
            /\ AtTopLevel(s, i + 1)
            /\ \A j \in 2..(i - 1) : ~AtTopLevel(s, j + 1)

\* The quantifier after the primitive that s starts with, or "".
QuantifierOf(s) ==
    LET e == PrimitiveEnd(s)
    IN  IF e < Len(s) /\ s[e + 1] \in Quantifiers THEN s[e + 1] ELSE ""

Cat(A, B, n) == {x \o y : x \in {u \in A : Len(u) <= n}, y \in {v \in B : Len(v) <= n}}
                    \cap SeqsUpTo(Literals, n)

RECURSIVE Power(_, _, _)
Power(A, k, n) == IF k = 0 THEN {<<>>} ELSE {<<>>} \cup Cat(A, Power(A, k - 1, n), n)

\* The words of at most n characters in the language of well-formed pattern s.
RECURSIVE Lang(_, _)
Lang(s, n) ==
    IF s = <<>> THEN {<<>>}
    ELSE IF TopBar(s) > 0
    THEN Lang(SubSeq(s, 1, TopBar(s) - 1), n) \cup Lang(SubSeq(s, TopBar(s) + 1, Len(s)), n)
    ELSE LET e == PrimitiveEnd(s)
             q == QuantifierOf(s)
             prim == IF s[1] = "(" THEN Lang(SubSeq(s, 2, e - 1), n)
                     ELSE {w \in {<<s[1]>>} : n >= 1}
             atom == CASE q = "?" -> prim \cup {<<>>}
                       [] q = "*" -> Power(prim, n, n)
                       [] q = "+" -> Cat(prim, Power(prim, n, n), n)
                       [] OTHER -> prim
             rest == SubSeq(s, e + (IF q = "" THEN 1 ELSE 2), Len(s))
         IN  Cat(atom, Lang(rest, n), n)

Nullable(s) == <<>> \in Lang(s, 0)

\* Well-formed pattern s applies * or + to a primitive that matches the empty
\* string.
RECURSIVE HasNullableLoop(_)
HasNullableLoop(s) ==
    IF s = <<>> THEN FALSE
    ELSE IF TopBar(s) > 0
    THEN HasNullableLoop(SubSeq(s, 1, TopBar(s) - 1))
            \/ HasNullableLoop(SubSeq(s, TopBar(s) + 1, Len(s)))
    ELSE LET e == PrimitiveEnd(s)
             q == QuantifierOf(s)
             inner == IF s[1] = "(" THEN SubSeq(s, 2, e - 1) ELSE <<>>
         IN  \/ s[1] = "(" /\ q \in {"*", "+"} /\ Nullable(inner)
             \/ s[1] = "(" /\ HasNullableLoop(inner)
             \/ HasNullableLoop(SubSeq(s, e + (IF q = "" THEN 1 ELSE 2), Len(s)))

\* Some contiguous part of t, the empty one included, is in the language of s.
SomePartIn(s, t) ==
    \E i \in 1..(Len(t) + 1) : \E j \in (i - 1)..Len(t) : SubSeq(t, i, j) \in Lang(s, Len(t))

\* s occurs in t as a contiguous part.
OccursIn(s, t) ==
    \E i \in 1..(Len(t) + 1) : \E j \in (i - 1)..Len(t) : SubSeq(t, i, j) = s

Compiled == pc \notin {"new", "error"}

\* ------------------------------------------------------------- properties

\* C1: once matches has returned on a non-empty string, for a pattern that
\* applies no * or + to a primitive that matches the empty string, it returned
\* true exactly when some contiguous part of the string (the empty part
\* included) is in the pattern's language; and on such a pattern matches
\* neither hangs nor fails.
MatchesIsSubstringSearch ==
    (Compiled /\ ~HasNullableLoop(pattern)) =>
        /\ pc \notin {"hang", "fail"}
        /\ (pc = "returned" /\ string # <<>>) => (result <=> SomePartIn(pattern, string))

\* A match that starts after the first character, of a pattern with a bar
\* and a quantifier.
MatchesIsSubstringSearchWitness ==
    /\ pc = "returned"
    /\ result
    /\ start > 0
    /\ "|" \in {pattern[i] : i \in 1..Len(pattern)}
    /\ \E i \in 1..Len(pattern) : pattern[i] \in Quantifiers
    /\ ~HasNullableLoop(pattern)

\* C2 as stated: for a pattern of literal characters only and every string,
\* matches returns true exactly when the pattern occurs in the string.
LiteralMatchesIffOccurs ==
    (pc = "returned" /\ \A i \in 1..Len(pattern) : pattern[i] \in Literals) =>
        (result <=> OccursIn(pattern, string))

\* C2 as amended: the same, unless both the pattern and the string are empty.
LiteralMatchesIffOccursUnlessBothEmpty ==
    (/\ pc = "returned"
     /\ \A i \in 1..Len(pattern) : pattern[i] \in Literals
     /\ (pattern # <<>> \/ string # <<>>)) =>
        (result <=> OccursIn(pattern, string))

\* A literal pattern found between two other characters: X + P + Y.
LiteralMatchesWitness ==
    /\ pc = "returned"
    /\ result
    /\ Len(pattern) >= 1
    /\ \A i \in 1..Len(pattern) : pattern[i] \in Literals
    /\ start >= 1
    /\ start + Len(pattern) < Len(string)

\* C3: on the empty string matches returns false whatever the pattern, and
\* it does return.
EmptyStringNeverMatches ==
    (Compiled /\ pc # "ready" /\ string = <<>>) =>
        /\ pc \in {"outer", "returned"}
        /\ pc = "returned" => ~result

\* matches("") has returned for a pattern that matches the empty string.
EmptyStringNeverMatchesWitness ==
    /\ pc = "returned"
    /\ string = <<>>
    /\ ~result
    /\ Nullable(pattern)
    /\ "*" \in {pattern[i] : i \in 1..Len(pattern)}

\* C4 as stated: matches always comes to return a boolean; it never gets into
\* a call of follow_jump that does not finish, and it never fails.
MatchesTerminates == pc \notin {"hang", "fail"}

\* The addresses an instruction names.
TargetsOf(ins) ==
    CASE ins.op = "Split" -> {ins.a, ins.b}
      [] ins.op = "Jmp" -> {ins.a}
      [] OTHER -> {}

\* C5: every target of every Jmp and Split of a compiled program, trailing
\* Match included, is an index into the program.
TargetsInBounds ==
    Compiled =>
        /\ program # <<>>
        /\ program[Len(program)] = Match
        /\ \A i \in 1..Len(program) : \A t \in TargetsOf(program[i]) : t < Len(program)

\* The program of a group with a bar in it, where a Jmp lands on the trailing
\* Match.
TargetsInBoundsWitness ==
    /\ pc = "ready"
    /\ \E i \in 1..Len(pattern) : pattern[i] = "|" /\ ~AtTopLevel(pattern, i)
    /\ \E i \in 1..Len(program) : program[i] = Jmp(Len(program) - 1)

\* C6: during matches every address in ips is in bounds and holds Char or
\* Match; the Vm never fails; no closure is ever empty.
ThreadsAreCharOrMatch ==
    /\ pc # "fail"
    /\ ~pushed
    /\ \A k \in 1..Len(ips) :
          /\ ips[k] < Len(program)
          /\ program[ips[k] + 1].op \in {"Char", "Match"}

\* Several threads are alive after iterate has consumed a character.
ThreadsAreCharOrMatchWitness ==
    /\ pc = "scan"
    /\ cur > start
    /\ Len(ips) >= 2
    /\ \E k \in 1..Len(ips) : program[ips[k] + 1].op = "Char"
    /\ \E k \in 1..Len(ips) : program[ips[k] + 1].op = "Match"

\* C7: when some operator of the pattern stands where a primitive is
\* expected, compile returns the error that names the first such character
\* and its byte offset, and no program.
MisplacedOperatorIsReported ==
    (pc # "new" /\ HasMisplaced(pattern)) =>
        LET i == FirstMisplaced(pattern)
        IN  /\ pc = "error"
            /\ error = UnexpectedChar(pattern[i], ByteOffset(pattern, i))
            /\ program = <<>>

\* An unmatched ")" after a two-byte character: byte offset and character
\* index differ.
MisplacedOperatorIsReportedWitness ==
    /\ pc = "error"
    /\ error.kind = "UnexpectedChar"
    /\ error.c = ")"
    /\ error.at > FirstMisplaced(pattern) - 1
    /\ "(" \in {pattern[i] : i \in 1..Len(pattern)}

\* C8: when no operator is misplaced and some "(" is not closed, compile
\* returns the unexpected-end-of-stream error and no program.
OpenGroupIsReported ==
    (pc # "new" /\ ~HasMisplaced(pattern) /\ HasOpenGroup(pattern)) =>
        /\ pc = "error"
        /\ error = UNEXPECTED_EOS
        /\ program = <<>>

\* The group left open is an inner one, after a closed one.
OpenGroupIsReportedWitness ==
    /\ pc = "error"
    /\ error = UNEXPECTED_EOS
    /\ Count(pattern, Len(pattern) + 1, "(") >= 2
    /\ Count(pattern, Len(pattern) + 1, ")") >= 1

\* Program p with every target raised by k.
Shifted(p, k) ==
    [i \in 1..Len(p) |->
        CASE p[i].op = "Split" -> Split(p[i].a + k, p[i].b + k)
          [] p[i].op = "Jmp" -> Jmp(p[i].a + k)
          [] OTHER -> p[i]]

\* The arrangement of a primitive's program p under quantifier q.
Quantified(q, p) ==
    CASE q = "?" -> <<Split(1, Len(p) + 1)>> \o Shifted(p, 1)
      [] q = "*" -> <<Split(1, Len(p) + 2)>> \o Shifted(p, 1) \o <<Jmp(0)>>
      [] q = "+" -> p \o <<Split(0, Len(p) + 1)>>
      [] OTHER -> p

\* The pattern is one primitive and at most a quantifier.
OnePrimitive ==
    /\ pattern # <<>>
    /\ PrimitiveEnd(pattern) + (IF QuantifierOf(pattern) = "" THEN 0 ELSE 1) = Len(pattern)

\* The program of the pattern's primitive compiled on its own.
PrimitiveProgram ==
    LET r == compile(SubSeq(pattern, 1, PrimitiveEnd(pattern)))
    IN  SubSeq(r.p, 1, Len(r.p) - 1)

\* C9: a pattern that is one primitive and its quantifier compiles to the
\* primitive's own program p, of length len, arranged as: Split(1, len+1), p
\* shifted by 1 for "?"; Split(1, len+2), p shifted by 1, Jmp(0) for "*"; p,
\* Split(0, len+1) for "+"; p alone without a quantifier (and then Match).
QuantifierLayout ==
    (pc = "ready" /\ OnePrimitive) =>
        program = Append(Quantified(QuantifierOf(pattern), PrimitiveProgram), Match)

\* A quantified group whose own program holds jumps to shift.
QuantifierLayoutWitness ==
    /\ pc = "ready"
    /\ OnePrimitive
    /\ QuantifierOf(pattern) = "*"
    /\ \E i \in 1..Len(PrimitiveProgram) : PrimitiveProgram[i].op = "Split"

\* C10: the closure finishes from every address of a compiled program when
\* the pattern applies no * or + to a primitive that matches the empty
\* string, and from some address it does not finish when the pattern does; a
\* pattern with an empty group "()" does not compile.
ClosureHangsIffNullableLoop ==
    /\ (pc = "closed" /\ ~HasNullableLoop(pattern)) => closure.st = "ok"
    /\ (pc = "ready" /\ HasNullableLoop(pattern)) =>
          \E i \in 0..(Len(program) - 1) : follow_jump(program, i).st = "hang"
    /\ (\E i \in 1..(Len(pattern) - 1) : pattern[i] = "(" /\ pattern[i + 1] = ")") =>
          pc \in {"new", "error"}

\* A closure that does not finish, from an address other than 0.
ClosureHangsIffNullableLoopWitness ==
    /\ pc = "closed"
    /\ closure.st = "hang"
    /\ from > 0
    /\ HasNullableLoop(pattern)

====
